---- MODULE Spec2Model ----
(***************************************************************************)
(* Model of src/index.js, the top.gg scraper: getServers (exported as Get) *)
(* plans page-sized chunks, fetches them one request at a time with an     *)
(* accumulating skip offset, and post-processes the concatenated list      *)
(* (simplify, sort, filter, write).                                        *)
(*                                                                         *)
(* Every function of the file is an async function.  The body of an async  *)
(* function runs synchronously up to its first await; each await hands     *)
(* control back to the event loop.  One action of this model is one        *)
(* synchronous segment of getServers/parseServers between two awaits.      *)
(* Continuations of awaits on already-settled promises are microtasks and  *)
(* run in FIFO order; network responses and file-write completions are     *)
(* I/O callbacks and run only when the microtask queue is empty.           *)
(*                                                                         *)
(* The identifiers chunkList, skip, SL and L are assigned in the source    *)
(* without a declaration: they are properties of the global object and     *)
(* are shared by all invocations.  (So are i, url, res, list, s, tags and  *)
(* query, but each of those is written and consumed inside one             *)
(* synchronous segment, so they are LET-bound values here.)                *)
(***************************************************************************)
EXTENDS Integers, Sequences, FiniteSets, TLC

\* ------------------------------------------------------------------ bounds
\* amounts given to Get are multiples of half a page, up to MaxHalfPages halves
MaxHalfPages == 5
\* entity ids 1..MaxId
MaxId == 3
\* filterSize values 0..MaxFilterSize
MaxFilterSize == 2
\* entities in the results of one response, where the post-processing is checked
MaxResults == 3
\* the chunk planner alone is applied to every amount in -MaxNegAmount..MaxAmount
MaxAmount == 3500
MaxNegAmount == 3

\* ------------------------------------------------------- program constants
\* default of the parameter split of chunks
PageCap == 1000

\* ------------------------------------------------------------- JS values
\* null, for the string-valued options (options.tags || null, extras.file)
Null == "null"
\* a number is <<n>>; undefined and NaN (undefined coerced by +=) are <<>>
NotANumber == <<>>
Num(n) == <<n>>
\* x + y on numbers: NaN as soon as one operand is undefined or NaN
Plus(x, y) == IF x = NotANumber \/ y = NotANumber THEN NotANumber ELSE Num(x[1] + y[1])
\* x || 0 : 0 when x is NaN, undefined or 0
OrZero(x) == IF x = NotANumber THEN Num(0) ELSE x
\* chunkList[i] : undefined beyond the end of the array
Index(array, k) == IF k \in DOMAIN array THEN Num(array[k]) ELSE NotANumber

\* ------------------------------------------------------------------ chunks
RECURSIVE chunksLoop(_, _, _)
\* the while loop of chunks followed by the final push
chunksLoop(amt, split, acc) ==
    IF amt > split
      THEN chunksLoop(amt - split, split, Append(acc, split))
      ELSE Append(acc, amt)

RECURSIVE chunksLoopGe(_, _, _)
\* the loop with >= in place of > : a full last page leaves a zero remainder
chunksLoopGe(amt, split, acc) ==
    IF amt >= split
      THEN chunksLoopGe(amt - split, split, Append(acc, split))
      ELSE Append(acc, amt)

\* chunks with the loop condition amount >= split
chunksGe(amt, split) == chunksLoopGe(amt, split, <<>>)

\* chunks that forgets the final push of the remainder
chunksNoRemainder(amt, split) == SubSeq(chunksLoop(amt, split, <<>>), 1, Len(chunksLoop(amt, split, <<>>)) - 1)

chunks(amt, split) == chunksLoop(amt, split, <<>>)

\* ------------------------------------------------------------------ getUrl
\* getUrl whose reported skip is the offset it was given, not the page size
getUrlSkipOffset(a, s, t, q) ==
    [url  |-> [query |-> IF q # Null THEN q ELSE "", tags |-> IF t # Null THEN t ELSE "", amount |-> a, skip |-> s],
     skip |-> s]

\* the URL is kept as its parts: the optional q= and tags= values ("" when the
\* parameter is left out), and the amount= and skip= values
getUrl(a, s, t, q) ==
    [url  |-> [query |-> IF q # Null THEN q ELSE "", tags |-> IF t # Null THEN t ELSE "", amount |-> a, skip |-> s],
     skip |-> a]

\* ------------------------------------------------------------ entities
\* the records of the remote API: ids 1, 2, 3, 4, ... with member counts
\* 1, 2, 2, 3, ..., so that some records tie and some do not
NameOf(id) == "server-" \o ToString(id)
Entities == {[id |-> n, name |-> NameOf(n), memberCount |-> (n \div 2) + 1] : n \in 1..MaxId}

\* ---------------------------------------------------------------- simplify
simplifyOne(e) == [_id |-> e.id, name |-> e.name, members |-> e.memberCount]
simplify(json) == [k \in 1..Len(json) |-> simplifyOne(json[k])]

\* ----------------------------------------------------------------- compare
\* x.members is undefined on a record without that property
HasMembers(x) == "members" \in DOMAIN x
\* a.members < b.members : false when an operand is undefined
MembersLess(a, b) == HasMembers(a) /\ HasMembers(b) /\ a.members < b.members

compare(a, b) ==
    IF MembersLess(a, b) THEN 1
    ELSE IF MembersLess(b, a) THEN -1
    ELSE 0

\* Array.prototype.sort(compare): a stable sort, here by insertion
RECURSIVE InsertSorted(_, _)
InsertSorted(sorted, x) ==
    IF sorted = <<>> THEN <<x>>
    ELSE IF compare(sorted[Len(sorted)], x) > 0
      THEN Append(InsertSorted(SubSeq(sorted, 1, Len(sorted) - 1), x), sorted[Len(sorted)])
      ELSE Append(sorted, x)

RECURSIVE sort(_)
sort(array) ==
    IF array = <<>> THEN <<>>
    ELSE InsertSorted(sort(SubSeq(array, 1, Len(array) - 1)), array[Len(array)])

\* ------------------------------------------------------------------ filter
\* s.members > extras.filterSize : false when s.members is undefined
filterTest(s, filterSize) == HasMembers(s) /\ s.members > filterSize

filter(array, filterSize) == SelectSeq(array, LAMBDA s : filterTest(s, filterSize))

\* ---------------------------------------------------------- JSON.stringify
Quote(str) == "\"" \o str \o "\""
\* one record, indented by two spaces inside the array
stringifyRecord(r) ==
    IF HasMembers(r)
      THEN "  {\n    \"_id\": " \o Quote(ToString(r._id)) \o ",\n    \"name\": " \o Quote(r.name)
           \o ",\n    \"members\": " \o ToString(r.members) \o "\n  }"
      ELSE "  {\n    \"id\": " \o Quote(ToString(r.id)) \o ",\n    \"name\": " \o Quote(r.name)
           \o ",\n    \"memberCount\": " \o ToString(r.memberCount) \o "\n  }"

RECURSIVE stringifyItems(_)
stringifyItems(array) ==
    IF Len(array) = 1 THEN stringifyRecord(array[1])
    ELSE stringifyRecord(array[1]) \o ",\n" \o stringifyItems(Tail(array))

\* JSON.stringify(array, null, 2)
stringify(array) == IF array = <<>> THEN "[]" ELSE "[\n" \o stringifyItems(array) \o "\n]"

\* ------------------------------------------------------------------- state
Procs == {1, 2}

VARIABLES
    chunkList,    \* global: the chunk list of the latest getServers to plan
    skip,         \* global: the running skip offset
    SL,           \* global: the list after simplify and sort
    L,            \* global: the list after filter
    pc,           \* per invocation: the await it is suspended at
    args,         \* per invocation: amount, options, extras
    keys,         \* per invocation: the keys the for-in loop has still to visit
    pending,      \* per invocation: the value the awaited promise resolves to
    serverList,   \* per invocation: the local serverList
    result,       \* per invocation: the value Get's promise resolved with
    error,        \* per invocation: the error Get's promise rejected with
    microtasks,   \* FIFO of the invocations whose continuation is queued
    requests,     \* per invocation: the URLs handed to request(), in order
    pages,        \* per invocation: the results lists received, in order
    netErrors,    \* per invocation: request callbacks that came with an error
    writeState,   \* per invocation: state of its fs.writeFile call
    writeData,    \* per invocation: file and data handed to fs.writeFile
    fileContent   \* content of the output file

vars == <<chunkList, skip, SL, L, pc, args, keys, pending, serverList, result, error,
          microtasks, requests, pages, netErrors, writeState, writeData, fileContent>>

NoOptions == [tags |-> Null, query |-> Null]
NoExtras == [simplify |-> FALSE, sort |-> FALSE, filter |-> FALSE, filterSize |-> 0,
             write |-> FALSE, file |-> Null]
OutputFile == "out.json"

Init ==
    /\ chunkList = <<>>
    /\ skip = Num(0)
    /\ SL = <<>>
    /\ L = <<>>
    /\ pc = [p \in Procs |-> "idle"]
    /\ args = [p \in Procs |-> [amount |-> 0, options |-> NoOptions, extras |-> NoExtras]]
    /\ keys = [p \in Procs |-> <<>>]
    /\ pending = [p \in Procs |-> <<>>]
    /\ serverList = [p \in Procs |-> <<>>]
    /\ result = [p \in Procs |-> <<>>]
    /\ error = [p \in Procs |-> "none"]
    /\ microtasks = <<>>
    /\ requests = [p \in Procs |-> <<>>]
    /\ pages = [p \in Procs |-> <<>>]
    /\ netErrors = [p \in Procs |-> 0]
    /\ writeState = [p \in Procs |-> "none"]
    /\ writeData = [p \in Procs |-> [file |-> Null, data |-> ""]]
    /\ fileContent = "old content"

\* ------------------------------------------------------------------- write
\* write calls fs.writeFile and returns at once: the promise it returns does
\* not wait for the callback of fs.writeFile
write(p, file, array) ==
    /\ writeState' = [writeState EXCEPT ![p] = "pending"]
    /\ writeData' = [writeData EXCEPT ![p] = [file |-> file, data |-> stringify(array)]]

\* ------------------------------------------------------------ parseServers
\* parseRest that hands the list before the filter (SL) to write
parseRestWritesSL(p, list, mq) ==
    LET extras == args[p].extras
        sorted == IF extras.sort THEN sort(list) ELSE list
        kept == IF extras.filter /\ extras.filterSize > 0
                  THEN filter(sorted, extras.filterSize)
                  ELSE sorted
    IN  /\ SL' = sorted
        /\ L' = kept
        /\ microtasks' = Append(mq, p)
        /\ IF extras.write /\ extras.file # Null
             THEN /\ write(p, extras.file, sorted)
                  /\ pc' = [pc EXCEPT ![p] = "awaitWrite"]
                  /\ pending' = [pending EXCEPT ![p] = <<>>]
             ELSE /\ pc' = [pc EXCEPT ![p] = "awaitParse"]
                  /\ pending' = [pending EXCEPT ![p] = kept]
                  /\ UNCHANGED <<writeState, writeData>>

\* parseServers from the sort on, up to its next await: mq is the microtask
\* queue the awaiting continuation is appended to
parseRest(p, list, mq) ==
    LET extras == args[p].extras
        sorted == IF extras.sort THEN sort(list) ELSE list
        kept == IF extras.filter /\ extras.filterSize > 0
                  THEN filter(sorted, extras.filterSize)
                  ELSE sorted
    IN  /\ SL' = sorted
        /\ L' = kept
        /\ microtasks' = Append(mq, p)
        /\ IF extras.write /\ extras.file # Null
             THEN /\ write(p, extras.file, kept)
                  /\ pc' = [pc EXCEPT ![p] = "awaitWrite"]
                  /\ pending' = [pending EXCEPT ![p] = <<>>]
             ELSE /\ pc' = [pc EXCEPT ![p] = "awaitParse"]
                  /\ pending' = [pending EXCEPT ![p] = kept]
                  /\ UNCHANGED <<writeState, writeData>>

\* the call parseServers(serverList, extras), up to its first await
parseServers(p, json, mq) ==
    IF args[p].extras.simplify
      THEN /\ pc' = [pc EXCEPT ![p] = "awaitSimplify"]
           /\ pending' = [pending EXCEPT ![p] = simplify(json)]
           /\ microtasks' = Append(mq, p)
           /\ UNCHANGED <<SL, L, writeState, writeData>>
      ELSE parseRest(p, json, mq)

\* -------------------------------------------------------------- getServers
\* the head of the for-in loop: cl and sk are the globals chunkList and skip as
\* this segment sees them, list the local serverList, ks the keys still to visit
forIn(p, cl, sk, list, ks, mq) ==
    IF ks = <<>>
      THEN /\ keys' = [keys EXCEPT ![p] = <<>>]
           /\ parseServers(p, list, mq)
      ELSE /\ keys' = [keys EXCEPT ![p] = Tail(ks)]
           /\ pending' = [pending EXCEPT ![p] =
                  getUrl(Index(cl, Head(ks)), OrZero(sk), args[p].options.tags, args[p].options.query)]
           /\ pc' = [pc EXCEPT ![p] = "awaitUrl"]
           /\ microtasks' = Append(mq, p)
           /\ UNCHANGED <<SL, L, writeState, writeData>>

\* Get(amount, options, extras) is called: chunks runs, getServers awaits it
Start(p, amt, opts, ext) ==
    /\ pc[p] = "idle"
    /\ args' = [args EXCEPT ![p] = [amount |-> amt, options |-> opts, extras |-> ext]]
    /\ pending' = [pending EXCEPT ![p] = chunks(amt, PageCap)]
    /\ pc' = [pc EXCEPT ![p] = "awaitChunks"]
    /\ microtasks' = Append(microtasks, p)
    /\ UNCHANGED <<chunkList, skip, SL, L, keys, serverList, result, error,
                   requests, pages, netErrors, writeState, writeData, fileContent>>

\* chunkList = (awaited); serverList = []; skip = 0; first turn of the loop
ResumeChunks(p) ==
    /\ microtasks # <<>> /\ Head(microtasks) = p
    /\ pc[p] = "awaitChunks"
    /\ chunkList' = pending[p]
    /\ skip' = Num(0)
    /\ serverList' = [serverList EXCEPT ![p] = <<>>]
    /\ forIn(p, pending[p], Num(0), <<>>, [k \in 1..Len(pending[p]) |-> k], Tail(microtasks))
    /\ UNCHANGED <<args, result, error, requests, pages, netErrors, fileContent>>

\* obj = (awaited); skip += obj.skip; url = obj.url; req2await(url) is called
ResumeUrl(p) ==
    /\ microtasks # <<>> /\ Head(microtasks) = p
    /\ pc[p] = "awaitUrl"
    /\ skip' = Plus(skip, pending[p].skip)
    /\ requests' = [requests EXCEPT ![p] = Append(requests[p], pending[p].url)]
    /\ pc' = [pc EXCEPT ![p] = "awaitReq"]
    /\ microtasks' = Tail(microtasks)
    /\ UNCHANGED <<chunkList, SL, L, args, keys, pending, serverList, result, error,
                   pages, netErrors, writeState, writeData, fileContent>>

\* the request callback has no error and a body {results: [...]}: the list
\* is appended and the loop goes on
ResponseOk(p, results) ==
    /\ microtasks = <<>>
    /\ pc[p] = "awaitReq"
    /\ serverList' = [serverList EXCEPT ![p] = serverList[p] \o results]
    /\ pages' = [pages EXCEPT ![p] = Append(pages[p], results)]
    /\ forIn(p, chunkList, skip, serverList[p] \o results, keys[p], <<>>)
    /\ UNCHANGED <<chunkList, skip, args, result, error, requests, netErrors, fileContent>>

\* the request callback has an error that is swallowed: the loop goes on with
\* the pages fetched so far
ResponseErrorSkipped(p) ==
    /\ microtasks = <<>>
    /\ pc[p] = "awaitReq"
    /\ netErrors' = [netErrors EXCEPT ![p] = netErrors[p] + 1]
    /\ forIn(p, chunkList, skip, serverList[p], keys[p], <<>>)
    /\ UNCHANGED <<chunkList, skip, args, serverList, result, error, requests, pages, fileContent>>

\* the request callback has an error: req2await rejects, getServers rejects
ResponseError(p) ==
    /\ microtasks = <<>>
    /\ pc[p] = "awaitReq"
    /\ pc' = [pc EXCEPT ![p] = "failed"]
    /\ error' = [error EXCEPT ![p] = "NetworkError"]
    /\ netErrors' = [netErrors EXCEPT ![p] = netErrors[p] + 1]
    /\ UNCHANGED <<chunkList, skip, SL, L, args, keys, pending, serverList, result,
                   microtasks, requests, pages, writeState, writeData, fileContent>>

\* the body is not JSON: JSON.parse throws, getServers rejects
ResponseMalformed(p) ==
    /\ microtasks = <<>>
    /\ pc[p] = "awaitReq"
    /\ pc' = [pc EXCEPT ![p] = "failed"]
    /\ error' = [error EXCEPT ![p] = "SyntaxError"]
    /\ UNCHANGED <<chunkList, skip, SL, L, args, keys, pending, serverList, result,
                   microtasks, requests, pages, netErrors, writeState, writeData, fileContent>>

\* SL = (awaited simplify); the rest of parseServers
ResumeSimplify(p) ==
    /\ microtasks # <<>> /\ Head(microtasks) = p
    /\ pc[p] = "awaitSimplify"
    /\ parseRest(p, pending[p], Tail(microtasks))
    /\ UNCHANGED <<chunkList, skip, args, keys, serverList, result, error,
                   requests, pages, netErrors, fileContent>>

\* after await write(...): return L, where L is the global
ResumeWrite(p) ==
    /\ microtasks # <<>> /\ Head(microtasks) = p
    /\ pc[p] = "awaitWrite"
    /\ pending' = [pending EXCEPT ![p] = L]
    /\ pc' = [pc EXCEPT ![p] = "awaitParse"]
    /\ microtasks' = Append(Tail(microtasks), p)
    /\ UNCHANGED <<chunkList, skip, SL, L, args, keys, serverList, result, error,
                   requests, pages, netErrors, writeState, writeData, fileContent>>

\* serverList = (awaited parseServers); return serverList
ResumeParse(p) ==
    /\ microtasks # <<>> /\ Head(microtasks) = p
    /\ pc[p] = "awaitParse"
    /\ serverList' = [serverList EXCEPT ![p] = pending[p]]
    /\ result' = [result EXCEPT ![p] = pending[p]]
    /\ pc' = [pc EXCEPT ![p] = "done"]
    /\ microtasks' = Tail(microtasks)
    /\ UNCHANGED <<chunkList, skip, SL, L, args, keys, pending, error,
                   requests, pages, netErrors, writeState, writeData, fileContent>>

\* the callback of fs.writeFile runs without an error: the file is overwritten
WriteOk(p) ==
    /\ microtasks = <<>>
    /\ writeState[p] = "pending"
    /\ writeState' = [writeState EXCEPT ![p] = "written"]
    /\ fileContent' = writeData[p].data
    /\ UNCHANGED <<chunkList, skip, SL, L, pc, args, keys, pending, serverList, result,
                   error, microtasks, requests, pages, netErrors, writeData>>

\* the callback of fs.writeFile runs with an error: console.log(err), no more
WriteFailed(p) ==
    /\ microtasks = <<>>
    /\ writeState[p] = "pending"
    /\ writeState' = [writeState EXCEPT ![p] = "failed"]
    /\ UNCHANGED <<chunkList, skip, SL, L, pc, args, keys, pending, serverList, result,
                   error, microtasks, requests, pages, netErrors, writeData, fileContent>>

\* ---------------------------------------------------------------- inputs
\* amounts: -500, 0, 500, 1000, ... (half pages, one negative amount)
Amounts == {k * (PageCap \div 2) : k \in -1..MaxHalfPages}
OptionChoices == {[tags |-> t, query |-> q] : t \in {Null, "gaming"}, q \in {Null, "chill"}}
ExtrasChoices ==
    [simplify : BOOLEAN, sort : BOOLEAN, filter : BOOLEAN, filterSize : 0..MaxFilterSize,
     write : BOOLEAN, file : {Null, OutputFile}]
EveryExtra == [simplify |-> TRUE, sort |-> TRUE, filter |-> TRUE, filterSize |-> 1,
               write |-> TRUE, file |-> OutputFile]
\* results lists of at most n entities
ListsUpTo(n) == UNION {[1..k -> Entities] : k \in 0..n}
\* a page that came back empty, or with a single entity
ShortPages == {<<>>} \cup {<<e>> : e \in Entities}

\* ---------------------------------------------------------- specifications
\* One invocation of Get, every amount and option, both no post-processing and
\* all of it; the API answers each request with a page of ShortPages, an error or
\* a body that is not JSON.
StartFetch == \E amt \in Amounts, opts \in OptionChoices, ext \in {NoExtras, EveryExtra} : Start(1, amt, opts, ext)
RespondFetch == \E results \in ShortPages : ResponseOk(1, results)

Next ==
    \/ StartFetch
    \/ ResumeChunks(1)
    \/ ResumeUrl(1)
    \/ RespondFetch
    \/ ResponseError(1)
    \/ ResponseMalformed(1)
    \/ ResumeSimplify(1)
    \/ ResumeWrite(1)
    \/ ResumeParse(1)
    \/ WriteOk(1)
    \/ WriteFailed(1)

Spec == Init /\ [][Next]_vars

\* One invocation of Get of a single page, every combination of the extras; the
\* API answers with up to MaxResults entities.
StartParse == \E ext \in ExtrasChoices : Start(1, MaxResults, NoOptions, ext)
RespondParse == \E results \in ListsUpTo(MaxResults) : ResponseOk(1, results)

NextParse ==
    \/ StartParse
    \/ ResumeChunks(1)
    \/ ResumeUrl(1)
    \/ RespondParse
    \/ ResponseError(1)
    \/ ResponseMalformed(1)
    \/ ResumeSimplify(1)
    \/ ResumeWrite(1)
    \/ ResumeParse(1)
    \/ WriteOk(1)
    \/ WriteFailed(1)

SpecParse == Init /\ [][NextParse]_vars

\* The chunk planner alone: Get is called and chunks has run.
StartChunks == \E amt \in (0 - MaxNegAmount)..MaxAmount : Start(1, amt, NoOptions, NoExtras)

NextChunks == StartChunks

SpecChunks == Init /\ [][NextChunks]_vars

\* Two invocations of Get interleaved at their awaits.
StartConcurrent == \E p \in Procs, amt \in {PageCap \div 2, PageCap + (PageCap \div 2)}, ext \in {NoExtras, EveryExtra} : Start(p, amt, NoOptions, ext)
RespondConcurrent == \E p \in Procs, results \in ShortPages : ResponseOk(p, results)

NextConcurrent ==
    \/ StartConcurrent
    \/ \E p \in Procs : ResumeChunks(p)
    \/ \E p \in Procs : ResumeUrl(p)
    \/ RespondConcurrent
    \/ \E p \in Procs : ResponseError(p)
    \/ \E p \in Procs : ResponseMalformed(p)
    \/ \E p \in Procs : ResumeSimplify(p)
    \/ \E p \in Procs : ResumeWrite(p)
    \/ \E p \in Procs : ResumeParse(p)
    \/ \E p \in Procs : WriteOk(p)
    \/ \E p \in Procs : WriteFailed(p)

SpecConcurrent == Init /\ [][NextConcurrent]_vars

\* ------------------------------------------------------------ properties
RECURSIVE SeqSum(_)
SeqSum(seq) == IF seq = <<>> THEN 0 ELSE Head(seq) + SeqSum(Tail(seq))

RECURSIVE Flatten(_)
Flatten(lists) == IF lists = <<>> THEN <<>> ELSE Head(lists) \o Flatten(Tail(lists))

\* the member count of a record, raw or simplified
MemberCount(r) == IF HasMembers(r) THEN r.members ELSE r.memberCount
IsDescending(list) == \A k \in 1..(Len(list) - 1) : MemberCount(list[k]) >= MemberCount(list[k + 1])
Occurrences(list, x) == Cardinality({k \in DOMAIN list : list[k] = x})
IsPermutation(list, other) ==
    /\ Len(list) = Len(other)
    /\ \A k \in DOMAIN list : Occurrences(list, list[k]) = Occurrences(other, list[k])

\* the requests the amount and options of invocation p dictate: one per planned
\* chunk, the k-th with amount chunk k and skip the sum of the chunks before it
DictatedRequests(p) ==
    LET cl == chunks(args[p].amount, PageCap)
        o == args[p].options
    IN  [k \in 1..Len(cl) |->
            [query |-> IF o.query = Null THEN "" ELSE o.query,
             tags |-> IF o.tags = Null THEN "" ELSE o.tags,
             amount |-> Num(cl[k]),
             skip |-> Num(SeqSum(SubSeq(cl, 1, k - 1)))]]
IsPrefix(seq, whole) == Len(seq) <= Len(whole) /\ seq = SubSeq(whole, 1, Len(seq))
PastTheLoop(p) == pc[p] \in {"awaitSimplify", "awaitWrite", "awaitParse", "done"}

\* the list invocation p returns when it runs alone on the pages it received
ListAlone(p) ==
    LET e == args[p].extras
        projected == IF e.simplify THEN simplify(Flatten(pages[p])) ELSE Flatten(pages[p])
        sorted == IF e.sort THEN sort(projected) ELSE projected
    IN  IF e.filter /\ e.filterSize > 0 THEN filter(sorted, e.filterSize) ELSE sorted

\* n chunks of a full page
FullPages(n) == [k \in 1..n |-> PageCap]
IsMultiple(p) == args[p].amount > 0 /\ args[p].amount % PageCap = 0

\* C1: within one invocation the requests issued so far are the first ones of
\* the dictated sequence (k-th request: amount = chunk k, skip = sum of the
\* chunks before it, whatever the pages returned), a request is issued only
\* when every earlier one has been answered, and once the loop is over exactly
\* one request per chunk has been issued.
C1_RequestPerChunk ==
    \A p \in Procs :
        /\ IsPrefix(requests[p], DictatedRequests(p))
        /\ Len(requests[p]) = Len(pages[p]) + (IF pc[p] \in {"awaitReq", "failed"} THEN 1 ELSE 0)
        /\ PastTheLoop(p) => requests[p] = DictatedRequests(p)

\* Get(1500) has returned after exactly the requests (1000, 0) and (500, 1000),
\* the first page having come back empty
C1_Witness ==
    /\ pc[1] = "done"
    /\ args[1].amount = 1500
    /\ Len(requests[1]) = 2
    /\ requests[1][1].amount = Num(1000) /\ requests[1][1].skip = Num(0)
    /\ requests[1][2].amount = Num(500) /\ requests[1][2].skip = Num(1000)
    /\ pages[1][1] = <<>>

\* C2: for a non-negative amount the planned chunks sum to the amount, every
\* chunk but the last is the page cap and the last is in 0..cap; 2500 gives
\* [1000, 1000, 500] and 0 gives [0].
C2_ChunksSum ==
    (pc[1] = "awaitChunks" /\ args[1].amount >= 0) =>
        LET cl == pending[1]
        IN  /\ Len(cl) >= 1
            /\ SeqSum(cl) = args[1].amount
            /\ \A k \in 1..(Len(cl) - 1) : cl[k] = PageCap
            /\ cl[Len(cl)] \in 0..PageCap
            /\ args[1].amount = 2500 => cl = <<1000, 1000, 500>>
            /\ args[1].amount = 0 => cl = <<0>>

C2_Witness == pc[1] = "awaitChunks" /\ args[1].amount = 2500 /\ pending[1] = <<1000, 1000, 500>>

\* C3 as stated: for a non-zero multiple of the cap the planner emits
\* amount/cap full chunks and then a chunk of size 0, and the fetch ends with
\* a request of amount 0.
C3_TrailingZeroChunk ==
    \A p \in Procs : IsMultiple(p) =>
        /\ pc[p] = "awaitChunks" => pending[p] = Append(FullPages(args[p].amount \div PageCap), 0)
        /\ PastTheLoop(p) =>
              /\ Len(requests[p]) = (args[p].amount \div PageCap) + 1
              /\ requests[p][Len(requests[p])].amount = Num(0)

\* C3 amended: for a non-zero multiple of the cap the planner emits exactly
\* amount/cap full chunks and no chunk of size 0, and every request of the
\* fetch asks for a full page: none has amount 0.
C3_NoTrailingZeroChunk ==
    \A p \in Procs : IsMultiple(p) =>
        /\ pc[p] = "awaitChunks" => pending[p] = FullPages(args[p].amount \div PageCap)
        /\ \A k \in DOMAIN requests[p] : requests[p][k].amount = Num(PageCap)
        /\ Len(requests[p]) <= args[p].amount \div PageCap
        /\ PastTheLoop(p) => Len(requests[p]) = args[p].amount \div PageCap

C3_Witness ==
    /\ pc[1] = "done"
    /\ args[1].amount = 2000
    /\ Len(requests[1]) = 2
    /\ requests[1][2].amount = Num(1000)

\* C4: once a request of an invocation has failed, the invocation has failed
\* with that error, the failed request is the last one it issued, nothing was
\* post-processed or written, and no list was returned.
C4_FailFast ==
    \A p \in Procs : netErrors[p] > 0 =>
        /\ pc[p] = "failed"
        /\ error[p] = "NetworkError"
        /\ netErrors[p] = 1
        /\ Len(requests[p]) = Len(pages[p]) + 1
        /\ writeState[p] = "none"
        /\ result[p] = <<>>
        /\ SL = <<>> /\ L = <<>>

\* the second of three requests failed after a non-empty first page, with the
\* write enabled
C4_Witness ==
    /\ netErrors[1] = 1
    /\ args[1].amount = 2500
    /\ args[1].extras.write
    /\ Len(requests[1]) = 2
    /\ pages[1] # <<>> /\ pages[1][1] # <<>>

\* C5: under every interleaving of two invocations each one issues the
\* requests its own amount dictates and returns the list it returns alone.
C5_Independent ==
    \A p \in Procs :
        /\ IsPrefix(requests[p], DictatedRequests(p))
        /\ PastTheLoop(p) => requests[p] = DictatedRequests(p)
        /\ pc[p] = "done" => result[p] = ListAlone(p)

\* C6: with sort enabled the returned list and the list left by the sort stage
\* are in descending order of member count, with or without simplify, and the
\* sort stage permutes its input.
C6_SortedDescending ==
    (pc[1] = "done" /\ args[1].extras.sort) =>
        /\ IsDescending(result[1])
        /\ IsDescending(SL)
        /\ IsPermutation(SL, IF args[1].extras.simplify THEN simplify(Flatten(pages[1])) ELSE Flatten(pages[1]))

\* C7: with filter enabled and filterSize T > 0 the returned list is the
\* pre-filter list restricted to the records with member count > T, in order,
\* with or without simplify; otherwise it is the pre-filter list.
C7_FilterStrict ==
    pc[1] = "done" =>
        result[1] = IF args[1].extras.filter /\ args[1].extras.filterSize > 0
                      THEN SelectSeq(SL, LAMBDA r : MemberCount(r) > args[1].extras.filterSize)
                      ELSE SL

\* C8: a negative amount is rejected with InvalidArgument: no request is ever
\* issued for it and Get does not return a list.
C8_NegativeRejected ==
    \A p \in Procs : (pc[p] # "idle" /\ args[p].amount < 0) =>
        /\ requests[p] = <<>>
        /\ pc[p] # "done"
        /\ pc[p] = "failed" => error[p] = "InvalidArgument"

\* C9: the data handed to the write is the serialization of the list Get
\* returns, that list does not depend on the outcome of the write, and a write
\* that was issued, failed or not, never makes Get fail.
C9_WriteSwallowed ==
    \A p \in Procs :
        /\ writeState[p] # "none" =>
              /\ pc[p] \in {"awaitWrite", "awaitParse", "done"}
              /\ error[p] = "none"
              /\ writeData[p] = [file |-> args[p].extras.file, data |-> stringify(ListAlone(p))]
        /\ pc[p] = "done" =>
              /\ result[p] = ListAlone(p)
              /\ (args[p].extras.write /\ args[p].extras.file # Null) =>
                    /\ writeState[p] # "none"
                    /\ writeData[p].data = stringify(result[p])

\* the write failed after Get returned a list the filter had shortened
C9_Witness ==
    /\ pc[1] = "done"
    /\ writeState[1] = "failed"
    /\ result[1] # <<>>
    /\ Len(result[1]) < Len(Flatten(pages[1]))
    /\ fileContent = "old content"

\* C10: Get never resolves while its write is still pending.
C10_WriteBeforeResolve ==
    \A p \in Procs : pc[p] = "done" => writeState[p] # "pending"

====
